---- MODULE Spec2Model ----
(***************************************************************************)
(* Model of src/src/caramba.cpp: the R-facing entry points of the mamba    *)
(* binding (set_channels, set_root_prefix, set_opt, install) and the       *)
(* install_specs pipeline.  The process-wide mamba::Context singleton is   *)
(* the record ctx; the filesystem is the set of existing paths fs; the     *)
(* installed ledger of the target prefix is ledger.  install_specs is a    *)
(* sequential procedure: pc is its position, run its local variables and   *)
(* log the calls it has made so far, in order.  out is what the last       *)
(* exported call printed as a report (list, print_context); the other      *)
(* calls print no report.                                                  *)
(***************************************************************************)
EXTENDS Integers, Sequences, FiniteSets, TLC

VARIABLES ctx, fs, ledger, pc, run, log, exit_code, out

vars == <<ctx, fs, ledger, pc, run, log, exit_code, out>>

(***************************************************************************)
(* Bounds of the model.                                                    *)
(***************************************************************************)
\* longest ctx.channels that set_channels may still extend
MaxChannels == 3
\* longest argument of one set_channels call
MaxArg == 2

(***************************************************************************)
(* Paths: ghc::filesystem::path as the sequence of its components; the     *)
(* empty path is the empty sequence.                                       *)
(***************************************************************************)
EmptyPath == <<>>
RootDir == <<"root">>
EnvDir == <<"env">>

\* fs::path operator/
PathJoin(p, name) == Append(p, name)

\* the path itself and every ancestor of it
Ancestors(p) == {SubSeq(p, 1, k) : k \in 1..Len(p)}

\* fs::exists
exists(dirs, p) == p \in dirs

\* fs::create_directories when it succeeds: the path and all missing ancestors
create_directories(dirs, p) == dirs \cup Ancestors(p)

\* fs::create_directories when it throws after having made the first k
\* components (k < Len(p)); it can only throw when the path is not there yet
create_directories_partial(dirs, p, k) == dirs \cup {SubSeq(p, 1, j) : j \in 1..k}

(***************************************************************************)
(* Sequence helpers.                                                       *)
(***************************************************************************)
Range(s) == {s[i] : i \in 1..Len(s)}

\* every enumeration order of a finite set, each element once
Orderings(S) == {s \in [1..Cardinality(S) -> S] : Range(s) = S}

\* all sequences over S of length lo..hi
SeqsBetween(S, lo, hi) == UNION {[1..n -> S] : n \in lo..hi}

(***************************************************************************)
(* mamba::Context::instance(): the fields this file reads or writes.       *)
(***************************************************************************)
\* the two names install always inserts (line 433)
DefaultChannels == {"default", "conda-forge"}

\* channel names a caller passes to set_channels
ChannelNames == {"A", "B", "default"}

\* the static network_options struct (lines 95-98); nothing here writes it
network_options == [ssl_verify |-> TRUE, cacert_path |-> ""]

\* cert_locations of set_network_options (lines 239-246)
cert_locations ==
    << "/etc/ssl/certs/ca-certificates.crt",
       "/etc/pki/tls/certs/ca-bundle.crt",
       "/etc/ssl/ca-bundle.pem",
       "/etc/pki/tls/cacert.pem",
       "/etc/pki/ca-trust/extracted/pem/tls-ca-bundle.pem",
       "/etc/ssl/cert.pem" >>

\* a cert location as a path of the filesystem
CertPath(loc) == <<loc>>

\* values of the environment the process starts in
RootPrefixes == {EmptyPath, RootDir}
TargetPrefixes == {EmptyPath, RootDir, EnvDir}

InitialContext(root, target) ==
    [ channels |-> <<>>,
      root_prefix |-> root,
      target_prefix |-> target,
      ssl_verify |-> "",
      verbosity |-> 0,
      use_index_cache |-> FALSE,
      offline |-> FALSE,
      quiet |-> FALSE,
      json |-> FALSE,
      auto_activate_base |-> FALSE,
      dev |-> FALSE,
      on_ci |-> FALSE,
      no_progress_bars |-> FALSE,
      dry_run |-> FALSE,
      always_yes |-> FALSE,
      keep_temp_files |-> FALSE,
      keep_temp_directories |-> FALSE,
      change_ps1 |-> FALSE,
      add_pip_as_python_dependency |-> FALSE ]

\* the switch with the break of case 9 missing
set_opt_ctx_fallthrough(c, option, value) ==
    CASE option = 1 -> [c EXCEPT !.use_index_cache = value]
      [] option = 2 -> [c EXCEPT !.offline = value]
      [] option = 3 -> [c EXCEPT !.quiet = value]
      [] option = 4 -> [c EXCEPT !.json = value]
      [] option = 5 -> [c EXCEPT !.auto_activate_base = value]
      [] option = 6 -> [c EXCEPT !.dev = value]
      [] option = 7 -> [c EXCEPT !.on_ci = value]
      [] option = 8 -> [c EXCEPT !.no_progress_bars = value]
      [] option = 9 -> [c EXCEPT !.dry_run = value, !.always_yes = value]
      [] option = 10 -> [c EXCEPT !.always_yes = value]
      [] option = 11 -> [c EXCEPT !.keep_temp_files = value]
      [] option = 12 -> [c EXCEPT !.keep_temp_directories = value]
      [] option = 13 -> [c EXCEPT !.change_ps1 = value]
      [] option = 14 -> [c EXCEPT !.add_pip_as_python_dependency = value]
      [] OTHER -> c

\* set_opt: the switch of lines 140-198
set_opt_ctx(c, option, value) ==
    CASE option = 1 -> [c EXCEPT !.use_index_cache = value]
      [] option = 2 -> [c EXCEPT !.offline = value]
      [] option = 3 -> [c EXCEPT !.quiet = value]
      [] option = 4 -> [c EXCEPT !.json = value]
      [] option = 5 -> [c EXCEPT !.auto_activate_base = value]
      [] option = 6 -> [c EXCEPT !.dev = value]
      [] option = 7 -> [c EXCEPT !.on_ci = value]
      [] option = 8 -> [c EXCEPT !.no_progress_bars = value]
      [] option = 9 -> [c EXCEPT !.dry_run = value]
      [] option = 10 -> [c EXCEPT !.always_yes = value]
      [] option = 11 -> [c EXCEPT !.keep_temp_files = value]
      [] option = 12 -> [c EXCEPT !.keep_temp_directories = value]
      [] option = 13 -> [c EXCEPT !.change_ps1 = value]
      [] option = 14 -> [c EXCEPT !.add_pip_as_python_dependency = value]
      [] OTHER -> c

\* set_channels: push_back of every element, in order (lines 131-134)
set_channels_ctx(c, channels) == [c EXCEPT !.channels = c.channels \o channels]

\* set_global_options: ctx is Context::instance() itself, so every field is
\* assigned from itself (lines 229-234)
set_global_options(c) ==
    [c EXCEPT !.verbosity = c.verbosity,
              !.quiet = c.quiet,
              !.json = c.json,
              !.always_yes = c.always_yes,
              !.offline = c.offline,
              !.dry_run = c.dry_run]

\* the for loop of lines 261-267: every existing location overwrites
\* ssl_verify, so the last existing one stays
RECURSIVE scan_cert_locations(_, _, _)
scan_cert_locations(dirs, ssl_verify, i) ==
    IF i > Len(cert_locations) THEN ssl_verify
    ELSE scan_cert_locations(dirs,
             IF exists(dirs, CertPath(cert_locations[i]))
             THEN cert_locations[i] ELSE ssl_verify,
             i + 1)

\* set_network_options (lines 237-274)
set_network_options(c, dirs) ==
    IF network_options.ssl_verify = FALSE
    THEN [c EXCEPT !.ssl_verify = "<false>"]
    ELSE IF network_options.cacert_path # ""
    THEN [c EXCEPT !.ssl_verify = network_options.cacert_path]
    ELSE LET found == scan_cert_locations(dirs, c.ssl_verify, 1) IN
         [c EXCEPT !.ssl_verify = IF found = "" THEN "<false>" ELSE found]

\* std::unordered_set built from the channels plus the two defaults
\* (lines 432-433)
channels_set(channels) == Range(channels) \cup DefaultChannels

\* install without the insert of line 433
install_channels_without_defaults(channels) == Orderings(Range(channels))

\* install without the set: the defaults appended to the list as it is
install_channels_keep_duplicates(channels) == {channels \o <<"default", "conda-forge">>}

\* lines 432-435: ctx.channels is re-assigned from the unordered_set; its
\* iteration order is unspecified, so every order of the set is possible
install_channels(channels) == Orderings(channels_set(channels))

(***************************************************************************)
(* The collaborators install_specs calls (mamba library), as far as this   *)
(* file uses them.                                                         *)
(***************************************************************************)
\* the platform subdirectory of a channel and its architecture-independent
\* fallback, in the order the Channel Resolver emits them
Platforms == <<"linux-64", "noarch">>

\* the URLs of one channel: <channel>/<platform>, then <channel>/noarch
ChannelUrls(channel) ==
    [k \in 1..Len(Platforms) |-> [channel |-> channel, platform |-> Platforms[k]]]

\* calculate_channel_urls (called at line 315): per channel, in the order
\* given, its URLs; a channel named twice is taken once, where first seen
RECURSIVE calculate_channel_urls(_)
calculate_channel_urls(channels) ==
    IF channels = <<>> THEN <<>>
    ELSE LET front == SubSeq(channels, 1, Len(channels) - 1)
             last == channels[Len(channels)]
         IN  IF last \in Range(front)
             THEN calculate_channel_urls(front)
             ELSE calculate_channel_urls(front) \o ChannelUrls(last)

\* lines 322-329: the MSubdirData of one URL; fresh is what load() (line 331)
\* found: a cache file that is still within its time-to-live
make_subdir(url, cache_dir, fresh) ==
    [ name |-> <<url.channel, url.platform>>,
      url |-> <<url.channel, url.platform, "repodata.json">>,
      cache |-> PathJoin(cache_dir, <<"cache_fn_url", url.channel, url.platform>>),
      fresh |-> fresh,
      result |-> "pending" ]

\* multi_dl.download (line 335): a target whose cache is fresh needs no
\* request; every other target ends downloaded or, after its retries, failed
download_results(subdirs, failed) ==
    [i \in 1..Len(subdirs) |->
        [subdirs[i] EXCEPT !.result =
            IF subdirs[i].fresh THEN "cached"
            ELSE IF i \in failed THEN "failed" ELSE "ok"]]

\* priority of the repository built from the prefix (line 341): the library
\* default, set_priority is not called on it
InstalledPriority == 0

\* line 341: the repository of the installed packages
installed_repo(prefix_data) ==
    [ name |-> <<"installed">>, priority |-> InstalledPriority, subpriority |-> 0,
      packages |-> prefix_data ]

\* packages every reachable repository offers
Packages == {"p", "q"}

\* subdir->create_repo (line 347): a repository holds the package records of
\* the repodata that was downloaded or is fresh in the cache, else none
create_repo(subdir) ==
    [ name |-> subdir.name, priority |-> 0, subpriority |-> 0,
      packages |-> IF subdir.result \in {"ok", "cached"} THEN Packages ELSE {} ]

\* repo.set_priority (line 348)
set_priority(repo, priority, subpriority) ==
    [repo EXCEPT !.priority = priority, !.subpriority = subpriority]

\* the loop of lines 345-350 from subdir i on, prio_counter being the value
\* the counter has when the iteration starts
RECURSIVE add_remote_repos(_, _, _, _)
add_remote_repos(repos, subdirs, i, prio_counter) ==
    IF i > Len(subdirs) THEN repos
    ELSE add_remote_repos(
             Append(repos, set_priority(create_repo(subdirs[i]), prio_counter, 0)),
             subdirs, i + 1, prio_counter - 1)

\* the counter started one too low
build_repos_counter_short(prefix_data, subdirs) ==
    add_remote_repos(<<installed_repo(prefix_data)>>, subdirs, 1, Len(subdirs) - 1)

\* the pool without the push_back of line 342
build_repos_without_installed(prefix_data, subdirs) ==
    add_remote_repos(<<>>, subdirs, 1, Len(subdirs))

\* lines 337-350: the installed repository first, then one repository per
\* subdir, the counter starting at subdirs.size()
build_repos(prefix_data, subdirs) ==
    add_remote_repos(<<installed_repo(prefix_data)>>, subdirs, 1, Len(subdirs))

\* the jobs added back to front
make_solver_reversed(specs) ==
    [ flags |-> {<<"SOLVER_FLAG_ALLOW_DOWNGRADE", 1>>},
      jobs |-> [i \in 1..Len(specs) |-> <<specs[Len(specs) + 1 - i], "SOLVER_INSTALL">>],
      solved |-> FALSE,
      success |-> FALSE ]

\* lines 352-353: the solver with its flags and one job per spec
make_solver(specs) ==
    [ flags |-> {<<"SOLVER_FLAG_ALLOW_DOWNGRADE", 1>>},
      jobs |-> [i \in 1..Len(specs) |-> <<specs[i], "SOLVER_INSTALL">>],
      solved |-> FALSE,
      success |-> FALSE ]

\* whether the pool holds a candidate for every spec
Satisfiable(repos, specs) ==
    \A i \in 1..Len(specs) : \E j \in 1..Len(repos) : specs[i] \in repos[j].packages

\* what solver.solve() (line 354) can answer: success needs a candidate for
\* every job; a conflict between the jobs can always make it fail
solve_outcomes(repos, specs) ==
    (IF Satisfiable(repos, specs) THEN {TRUE} ELSE {}) \cup
    (IF specs # <<>> THEN {FALSE} ELSE {})

\* MTransaction trans(solver, package_caches) (line 357): the selection
\* against the installed records; a failed solve selects nothing
make_transaction(solver, prefix_data) ==
    [ to_install |-> IF solver.success
                     THEN {solver.jobs[i][1] : i \in 1..Len(solver.jobs)} \ prefix_data
                     ELSE {},
      to_remove |-> {},
      from_failed_solve |-> ~solver.success ]

\* trans.execute (line 377) on the installed ledger
execute(installed, trans) == (installed \ trans.to_remove) \cup trans.to_install

(***************************************************************************)
(* State of one install_specs call.                                        *)
(***************************************************************************)
\* the directory tree of an environment (lines 372-374)
EnvTreeDirs(prefix) ==
    {prefix, PathJoin(prefix, "conda-meta"), PathJoin(prefix, "pkgs")}

NoSolver == [flags |-> {}, jobs |-> <<>>, solved |-> FALSE, success |-> FALSE]
NoTransaction == [to_install |-> {}, to_remove |-> {}, from_failed_solve |-> FALSE]

\* the locals of install_specs before the call; configured is ctx.channels
\* as the caller of install left it, env_before the part of the environment's
\* directory tree that existed when install was called
NoRun ==
    [ specs |-> <<>>,
      create_env |-> FALSE,
      configured |-> <<>>,
      env_before |-> {},
      cache_dir |-> EmptyPath,
      channel_urls |-> <<>>,
      subdirs |-> <<>>,
      multi_dl |-> <<>>,
      prefix_data |-> {},
      repos |-> <<>>,
      solver |-> NoSolver,
      trans |-> NoTransaction,
      yes |-> FALSE ]

\* exit(status): the process ends; nothing runs after it
Exit(status) ==
    /\ pc' = "exited"
    /\ exit_code' = <<status>>
    /\ log' = Append(log, "exit")

\* nothing printed
NoReport == [kind |-> "none", lines |-> <<>>]

(***************************************************************************)
(* Initial states: the process after loading, before any call.  The        *)
(* prefixes come from the environment (lines 46-48); an existing path has  *)
(* its ancestors; a ledger needs an existing target prefix.                *)
(***************************************************************************)
RootTrees ==
    { {},
      {RootDir},
      {RootDir, PathJoin(RootDir, "pkgs"), PathJoin(PathJoin(RootDir, "pkgs"), "cache")} }

EnvTrees ==
    { {},
      {EnvDir},
      {EnvDir, PathJoin(EnvDir, "conda-meta"), PathJoin(EnvDir, "pkgs")} }

CertTrees == { {CertPath(cert_locations[2]), CertPath(cert_locations[6])} }

InitialLedgers == {{}, {"p"}}

Init ==
    /\ \E root \in RootPrefixes, target \in TargetPrefixes :
           ctx = InitialContext(root, target)
    /\ \E rt \in RootTrees, et \in EnvTrees, ct \in CertTrees :
           /\ (ctx.target_prefix # EnvDir => et = {})
           /\ fs = rt \cup et \cup ct
    /\ ledger \in InitialLedgers
    /\ (ledger # {} => exists(fs, ctx.target_prefix))
    /\ pc = "idle"
    /\ run = NoRun
    /\ log = <<>>
    /\ exit_code = <<>>
    /\ out = NoReport

(***************************************************************************)
(* The exported setters (lines 122-199).                                   *)
(***************************************************************************)
set_channels(channels) ==
    /\ pc = "idle"
    /\ Len(ctx.channels) + Len(channels) <= MaxChannels
    /\ ctx' = set_channels_ctx(ctx, channels)
    /\ out' = NoReport
    /\ UNCHANGED <<fs, ledger, pc, run, log, exit_code>>

\* lines 117-120
set_verbosity(lvl) ==
    /\ pc = "idle"
    /\ ctx' = [ctx EXCEPT !.verbosity = lvl]
    /\ out' = NoReport
    /\ UNCHANGED <<fs, ledger, pc, run, log, exit_code>>

set_root_prefix(root_prefix) ==
    /\ pc = "idle"
    /\ ctx' = [ctx EXCEPT !.root_prefix = root_prefix]
    /\ out' = NoReport
    /\ UNCHANGED <<fs, ledger, pc, run, log, exit_code>>

set_opt(option, value) ==
    /\ pc = "idle"
    /\ ctx' = set_opt_ctx(ctx, option, value)
    /\ out' = NoReport
    /\ UNCHANGED <<fs, ledger, pc, run, log, exit_code>>

(***************************************************************************)
(* install (lines 430-439) up to the banner of install_specs (line 282).   *)
(***************************************************************************)
install(specs, create_env) ==
    /\ pc = "idle"
    /\ \E channels \in install_channels(ctx.channels) :
           ctx' = set_global_options(
                      set_network_options([ctx EXCEPT !.channels = channels], fs))
    /\ run' = [NoRun EXCEPT !.specs = specs,
                            !.create_env = create_env,
                            !.configured = ctx.channels,
                            !.env_before = fs \cap EnvTreeDirs(ctx.target_prefix)]
    /\ log' = <<"banner">>
    /\ pc' = "check_prefix"
    /\ out' = NoReport
    /\ UNCHANGED <<fs, ledger, exit_code>>

(***************************************************************************)
(* install_specs, lines 284-302: the three prefix checks.                  *)
(***************************************************************************)
\* the checks without the one of line 298
check_prefix_without_exists ==
    /\ pc = "check_prefix"
    /\ IF ctx.root_prefix = EmptyPath
       THEN Exit(1)
       ELSE IF ctx.target_prefix = EmptyPath
       THEN Exit(1)
       ELSE /\ pc' = "cache_dir"
            /\ UNCHANGED <<log, exit_code>>
    /\ UNCHANGED <<ctx, fs, ledger, run, out>>

check_prefix ==
    /\ pc = "check_prefix"
    /\ IF ctx.root_prefix = EmptyPath
       THEN Exit(1)
       ELSE IF ctx.target_prefix = EmptyPath
       THEN Exit(1)
       ELSE IF ~exists(fs, ctx.target_prefix) /\ run.create_env = FALSE
       THEN Exit(1)
       ELSE /\ pc' = "cache_dir"
            /\ UNCHANGED <<log, exit_code>>
    /\ UNCHANGED <<ctx, fs, ledger, run, out>>

(***************************************************************************)
(* lines 304-313: the metadata cache directory.  made is the number of     *)
(* components create_directories brought into existence or found: all of   *)
(* them when it succeeds, fewer when it throws on the way.                 *)
(***************************************************************************)
CacheDir(root_prefix) == PathJoin(PathJoin(root_prefix, "pkgs"), "cache")

create_cache_dir(made) ==
    /\ pc = "cache_dir"
    /\ LET cache_dir == CacheDir(ctx.root_prefix) IN
       /\ run' = [run EXCEPT !.cache_dir = cache_dir]
       /\ IF made = Len(cache_dir)
          THEN /\ fs' = create_directories(fs, cache_dir)
               /\ log' = Append(log, "create_cache_dir")
               /\ pc' = "resolve"
               /\ UNCHANGED exit_code
          ELSE /\ made < Len(cache_dir)
               /\ ~exists(fs, cache_dir)
               /\ fs' = create_directories_partial(fs, cache_dir, made)
               /\ pc' = "exited"
               /\ exit_code' = <<1>>
               /\ log' = log \o <<"create_cache_dir", "exit">>
    /\ UNCHANGED <<ctx, ledger, out>>

(***************************************************************************)
(* line 315: channel-URL resolution.                                       *)
(***************************************************************************)
resolve_channels ==
    /\ pc = "resolve"
    /\ run' = [run EXCEPT !.channel_urls = calculate_channel_urls(ctx.channels)]
    /\ log' = Append(log, "calculate_channel_urls")
    /\ pc' = "fetch"
    /\ UNCHANGED <<ctx, fs, ledger, exit_code, out>>

(***************************************************************************)
(* lines 320-334: one iteration of the loop over channel_urls.             *)
(***************************************************************************)
add_subdir(fresh) ==
    /\ pc = "fetch"
    /\ Len(run.subdirs) < Len(run.channel_urls)
    /\ LET sdir == make_subdir(run.channel_urls[Len(run.subdirs) + 1],
                               run.cache_dir, fresh)
       IN  run' = [run EXCEPT !.subdirs = Append(@, sdir),
                              !.multi_dl = Append(@, sdir.name)]
    /\ log' = Append(log, "add_target")
    /\ UNCHANGED <<ctx, fs, ledger, pc, exit_code, out>>

(***************************************************************************)
(* line 335: multi_dl.download(true), after the loop has ended.  failed is *)
(* the set of targets whose download fails for good.                       *)
(***************************************************************************)
\* the download started inside the loop, before every target is added
download_inside_loop(failed) ==
    /\ pc = "fetch"
    /\ \A i \in failed : i \in 1..Len(run.subdirs) /\ ~run.subdirs[i].fresh
    /\ run' = [run EXCEPT !.subdirs = download_results(@, failed)]
    /\ log' = Append(log, "download")
    /\ pc' = "pool"
    /\ UNCHANGED <<ctx, fs, ledger, exit_code, out>>

\* a download that ends the process as soon as one target fails
download_failfast(failed) ==
    /\ pc = "fetch"
    /\ Len(run.subdirs) = Len(run.channel_urls)
    /\ \A i \in failed : i \in 1..Len(run.subdirs) /\ ~run.subdirs[i].fresh
    /\ run' = [run EXCEPT !.subdirs = download_results(@, failed)]
    /\ IF failed # {}
       THEN /\ pc' = "exited"
            /\ exit_code' = <<1>>
            /\ log' = log \o <<"download", "exit">>
       ELSE /\ pc' = "pool"
            /\ log' = Append(log, "download")
            /\ UNCHANGED exit_code
    /\ UNCHANGED <<ctx, fs, ledger, out>>

download(failed) ==
    /\ pc = "fetch"
    /\ Len(run.subdirs) = Len(run.channel_urls)
    /\ \A i \in failed : i \in 1..Len(run.subdirs) /\ ~run.subdirs[i].fresh
    /\ run' = [run EXCEPT !.subdirs = download_results(@, failed)]
    /\ log' = Append(log, "download")
    /\ pc' = "pool"
    /\ UNCHANGED <<ctx, fs, ledger, exit_code, out>>

(***************************************************************************)
(* lines 337-350: the candidate pool.                                      *)
(***************************************************************************)
build_pool ==
    /\ pc = "pool"
    /\ run' = [run EXCEPT !.prefix_data = ledger,
                          !.repos = build_repos(ledger, run.subdirs)]
    /\ log' = Append(log, "build_pool")
    /\ pc' = "solve"
    /\ UNCHANGED <<ctx, fs, ledger, exit_code, out>>

(***************************************************************************)
(* lines 352-354: the solve; its result is not looked at.                  *)
(***************************************************************************)
solve(success) ==
    /\ pc = "solve"
    /\ success \in solve_outcomes(run.repos, run.specs)
    /\ run' = [run EXCEPT !.solver =
                   [make_solver(run.specs) EXCEPT !.solved = TRUE, !.success = success]]
    /\ log' = Append(log, "solve")
    /\ pc' = "transaction"
    /\ UNCHANGED <<ctx, fs, ledger, exit_code, out>>

(***************************************************************************)
(* lines 356-362: the transaction, and its JSON report.                    *)
(***************************************************************************)
build_transaction ==
    /\ pc = "transaction"
    /\ run' = [run EXCEPT !.trans = make_transaction(run.solver, run.prefix_data)]
    /\ log' = log \o <<"transaction">> \o (IF ctx.json THEN <<"log_json">> ELSE <<>>)
    /\ pc' = "prompt"
    /\ UNCHANGED <<ctx, fs, ledger, exit_code, out>>

(***************************************************************************)
(* lines 367-370: the confirmation, exit(0) on no, and the choice of the   *)
(* next step.                                                              *)
(***************************************************************************)
\* the prompt without the exit of line 368
prompt_ignoring_answer(yes) ==
    /\ pc = "prompt"
    /\ run' = [run EXCEPT !.yes = yes]
    /\ pc' = IF run.create_env /\ ~ctx.dry_run THEN "mkdir_prefix" ELSE "execute"
    /\ log' = Append(log, "prompt")
    /\ UNCHANGED <<ctx, fs, ledger, exit_code, out>>

prompt(yes) ==
    /\ pc = "prompt"
    /\ run' = [run EXCEPT !.yes = yes]
    /\ IF ~yes
       THEN /\ pc' = "exited"
            /\ exit_code' = <<0>>
            /\ log' = log \o <<"prompt", "exit">>
       ELSE /\ pc' = IF run.create_env /\ ~ctx.dry_run THEN "mkdir_prefix" ELSE "execute"
            /\ log' = Append(log, "prompt")
            /\ UNCHANGED exit_code
    /\ UNCHANGED <<ctx, fs, ledger, out>>

(***************************************************************************)
(* lines 372-374: the three create_directories calls; nothing catches what *)
(* they throw, so a failure ends the call with an error.                   *)
(***************************************************************************)
EnvTreeStep(step) ==
    CASE step = "mkdir_prefix" -> [dir |-> ctx.target_prefix, next |-> "mkdir_meta"]
      [] step = "mkdir_meta" ->
             [dir |-> PathJoin(ctx.target_prefix, "conda-meta"), next |-> "mkdir_pkgs"]
      [] step = "mkdir_pkgs" ->
             [dir |-> PathJoin(ctx.target_prefix, "pkgs"), next |-> "execute"]

\* the three creations with their errors swallowed
create_env_dir_ignoring_failure(made) ==
    /\ pc \in {"mkdir_prefix", "mkdir_meta", "mkdir_pkgs"}
    /\ LET step == EnvTreeStep(pc) IN
       IF made = Len(step.dir)
       THEN /\ fs' = create_directories(fs, step.dir)
            /\ pc' = step.next
       ELSE /\ made < Len(step.dir)
            /\ ~exists(fs, step.dir)
            /\ fs' = create_directories_partial(fs, step.dir, made)
            /\ pc' = step.next
    /\ log' = Append(log, "create_env_dir")
    /\ UNCHANGED <<ctx, ledger, run, exit_code, out>>

create_env_dir(made) ==
    /\ pc \in {"mkdir_prefix", "mkdir_meta", "mkdir_pkgs"}
    /\ LET step == EnvTreeStep(pc) IN
       IF made = Len(step.dir)
       THEN /\ fs' = create_directories(fs, step.dir)
            /\ pc' = step.next
       ELSE /\ made < Len(step.dir)
            /\ ~exists(fs, step.dir)
            /\ fs' = create_directories_partial(fs, step.dir, made)
            /\ pc' = "failed"
    /\ log' = Append(log, "create_env_dir")
    /\ UNCHANGED <<ctx, ledger, run, exit_code, out>>

(***************************************************************************)
(* line 377: trans.execute, whatever the dry_run flag is.                  *)
(***************************************************************************)
execute_transaction ==
    /\ pc = "execute"
    /\ ledger' = execute(ledger, run.trans)
    /\ log' = Append(log, "execute")
    /\ pc' = "done"
    /\ UNCHANGED <<ctx, fs, run, exit_code, out>>

(***************************************************************************)
(* line 378, or the error of lines 372-374 reaching the caller: control is *)
(* back in R and the locals are gone.                                      *)
(***************************************************************************)
return ==
    /\ pc \in {"done", "failed"}
    /\ pc' = "idle"
    /\ run' = NoRun
    /\ log' = <<>>
    /\ UNCHANGED <<ctx, fs, ledger, exit_code, out>>

(***************************************************************************)
(* list (lines 381-427).  A string is compared through its characters      *)
(* (std::string operator<, line 107) and searched through its pieces       *)
(* (std::string::find, line 394).                                          *)
(***************************************************************************)
\* the names a ledger can hold: those the repositories offer and one that
\* was installed by other means
LedgerNames == Packages \cup {"py"}

\* the characters of a name
Chars(name) ==
    CASE name = "p" -> <<112>>
      [] name = "py" -> <<112, 121>>
      [] name = "q" -> <<113>>

\* std::string operator< : lexicographic on the characters
RECURSIVE StringLess(_, _)
StringLess(a, b) ==
    IF b = <<>> THEN FALSE
    ELSE IF a = <<>> THEN TRUE
    ELSE IF a[1] < b[1] THEN TRUE
    ELSE IF a[1] > b[1] THEN FALSE
    ELSE StringLess(Tail(a), Tail(b))

\* the record PrefixData::load reads for an installed package: q comes from
\* the default public channel, p from conda-forge, py from a mirror whose
\* address holds the default channel's address further in
package_record(name) ==
    LET channel ==
            CASE name = "q" -> <<"https://repo.anaconda.com/pkgs/", "main">>
              [] name = "p" -> <<"https://conda.anaconda.org/", "conda-forge">>
              [] name = "py" -> <<"https://mirror.example/",
                                  "https://repo.anaconda.com/pkgs/", "main">>
    IN  [ name |-> name, version |-> "1.0", build_string |-> "0",
          channel |-> channel,
          url |-> channel \o <<"linux-64", name>> ]

\* make_channel(url).name() (lines 400-401): the channel part of a package
\* address, between the server and the platform
make_channel_name(url) == url[Len(url) - 2]

\* str.find(piece) == 0 (line 394)
find_at_start(str, piece) == str # <<>> /\ str[1] = piece

\* lines 105-108
compareAlphabetically(a, b) == StringLess(Chars(a.name), Chars(b.name))

\* lines 392-403: one formatted row
format_package(package) ==
    [ name |-> package.name,
      version |-> package.version,
      build |-> package.build_string,
      channel |-> IF find_at_start(package.channel, "https://repo.anaconda.com/pkgs/")
                  THEN ""
                  ELSE make_channel_name(package.url) ]

\* std::sort with compareAlphabetically (line 406), as an insertion sort
RECURSIVE insert_row(_, _)
insert_row(sorted, row) ==
    IF sorted = <<>> THEN <<row>>
    ELSE IF compareAlphabetically(row, sorted[1]) THEN <<row>> \o sorted
    ELSE <<sorted[1]>> \o insert_row(Tail(sorted), row)

RECURSIVE sort_packages(_)
sort_packages(packages) ==
    IF packages = <<>> THEN <<>>
    ELSE insert_row(sort_packages(SubSeq(packages, 1, Len(packages) - 1)),
                    packages[Len(packages)])

\* the rows without the sort of line 406
list_rows_unsorted(records) ==
    [i \in 1..Len(records) |-> format_package(package_record(records[i]))]

\* lines 390-406 and 416-419: the rows of the table, records being the names
\* of m_package_records in the order the loop visits them
list_rows(records) ==
    sort_packages([i \in 1..Len(records) |-> format_package(package_record(records[i]))])

\* list(): the table of the target prefix's ledger
list ==
    /\ pc = "idle"
    /\ \E records \in Orderings(ledger) :
           out' = [kind |-> "list", lines |-> list_rows(records)]
    /\ UNCHANGED <<ctx, fs, ledger, pc, run, log, exit_code>>

(***************************************************************************)
(* print_context (lines 202-225): a line is its label and the value        *)
(* streamed after it.                                                      *)
(***************************************************************************)
print_context_lines(c) ==
    [i \in 1..Len(c.channels) |-> <<"Channel", c.channels[i]>>] \o
    << <<"Root prefix", c.root_prefix>>,
       <<"Target prefix", c.target_prefix>>,
       <<"Use index cache", c.use_index_cache>>,
       <<"Is offline", c.offline>>,
       <<"Verbosity level", c.verbosity>>,
       <<"Is quiet", c.quiet>>,
       <<"Is json", c.json>>,
       <<"Auto activate base", c.auto_activate_base>>,
       <<"Is dev", c.dev>>,
       <<"Is on CI", c.on_ci>>,
       <<"Is no no progress bars", c.no_progress_bars>>,
       <<"Is dry run", c.dry_run>>,
       <<"Always yes", c.quiet>>,
       <<"Keep temporary files", c.keep_temp_files>>,
       <<"Keep temporary directories", c.keep_temp_directories>>,
       <<"Change PS1", c.change_ps1>>,
       <<"Add pip as python dependency", c.add_pip_as_python_dependency>> >>

print_context ==
    /\ pc = "idle"
    /\ out' = [kind |-> "context", lines |-> print_context_lines(ctx)]
    /\ UNCHANGED <<ctx, fs, ledger, pc, run, log, exit_code>>

(***************************************************************************)
(* Spec: one install call of a fresh process, followed to its end, in      *)
(* every environment of Init.  The caller names only the default channels  *)
(* here, so that every outcome of every fetch can be enumerated.           *)
(***************************************************************************)
SpecInputs == {<<"q", "p">>}
OptionInputs == {0, 9}
ChannelInputs == {<<"default">>, <<"conda-forge", "conda-forge">>}

Next ==
    \/ \E channels \in ChannelInputs : set_channels(channels)
    \/ \E root_prefix \in RootPrefixes : set_root_prefix(root_prefix)
    \/ \E option \in OptionInputs, value \in BOOLEAN : set_opt(option, value)
    \/ \E specs \in SpecInputs, create_env \in BOOLEAN : install(specs, create_env)
    \/ check_prefix
    \/ \E made \in 0..3 : create_cache_dir(made)
    \/ resolve_channels
    \/ \E fresh \in BOOLEAN : add_subdir(fresh)
    \/ \E failed \in SUBSET (1..Len(run.subdirs)) : download(failed)
    \/ build_pool
    \/ \E success \in BOOLEAN : solve(success)
    \/ build_transaction
    \/ \E yes \in BOOLEAN : prompt(yes)
    \/ \E made \in 0..2 : create_env_dir(made)
    \/ execute_transaction

Spec == Init /\ [][Next]_vars

(***************************************************************************)
(* SpecSession: an R session that configures channels and calls install    *)
(* any number of times, in one environment where the prefixes exist and    *)
(* every fetch succeeds.                                                   *)
(***************************************************************************)
InitSession ==
    /\ ctx = InitialContext(RootDir, EnvDir)
    /\ fs = {RootDir, EnvDir, PathJoin(EnvDir, "conda-meta")}
    /\ ledger = {}
    /\ pc = "idle"
    /\ run = NoRun
    /\ log = <<>>
    /\ exit_code = <<>>
    /\ out = NoReport

NextSession ==
    \/ \E channels \in SeqsBetween(ChannelNames, 1, MaxArg) : set_channels(channels)
    \/ set_root_prefix(RootDir)
    \/ \E value \in BOOLEAN : set_opt(9, value)
    \/ \E create_env \in BOOLEAN : install(<<"p">>, create_env)
    \/ check_prefix
    \/ create_cache_dir(3)
    \/ resolve_channels
    \/ add_subdir(FALSE)
    \/ download({})
    \/ build_pool
    \/ solve(TRUE)
    \/ build_transaction
    \/ \E yes \in BOOLEAN : prompt(yes)
    \/ \E made \in 1..2 : create_env_dir(made)
    \/ execute_transaction
    \/ return

SpecSession == InitSession /\ [][NextSession]_vars

(***************************************************************************)
(* SpecLedger: a session over every ledger the prefix can hold, where      *)
(* install is called with every list of up to MaxSpecs specs and list      *)
(* prints the ledger between the calls.                                    *)
(***************************************************************************)
MaxSpecs == 2

InitLedger ==
    /\ ctx = InitialContext(RootDir, EnvDir)
    /\ fs = {RootDir, EnvDir, PathJoin(EnvDir, "conda-meta")}
    /\ ledger \in SUBSET LedgerNames
    /\ pc = "idle"
    /\ run = NoRun
    /\ log = <<>>
    /\ exit_code = <<>>
    /\ out = NoReport

NextLedger ==
    \/ \E specs \in SeqsBetween(Packages, 0, MaxSpecs), create_env \in BOOLEAN :
           install(specs, create_env)
    \/ check_prefix
    \/ create_cache_dir(3)
    \/ resolve_channels
    \/ add_subdir(FALSE)
    \/ download({})
    \/ build_pool
    \/ \E success \in BOOLEAN : solve(success)
    \/ build_transaction
    \/ \E yes \in BOOLEAN : prompt(yes)
    \/ \E made \in 1..2 : create_env_dir(made)
    \/ execute_transaction
    \/ return
    \/ list

SpecLedger == InitLedger /\ [][NextLedger]_vars

(***************************************************************************)
(* SpecNetwork: a session on a machine whose CA bundles come and go        *)
(* between the calls (a package manager installing or removing them): what *)
(* fs::exists answers at line 263 differs from one install to the next.    *)
(***************************************************************************)
CertPaths == {CertPath(cert_locations[i]) : i \in 1..Len(cert_locations)}

\* the system gains the bundle at loc
cert_installed(loc) ==
    /\ pc = "idle"
    /\ ~exists(fs, CertPath(loc))
    /\ fs' = fs \cup {CertPath(loc)}
    /\ UNCHANGED <<ctx, ledger, pc, run, log, exit_code, out>>

\* the system loses the bundle at loc
cert_removed(loc) ==
    /\ pc = "idle"
    /\ exists(fs, CertPath(loc))
    /\ fs' = fs \ {CertPath(loc)}
    /\ UNCHANGED <<ctx, ledger, pc, run, log, exit_code, out>>

InitNetwork ==
    /\ ctx = InitialContext(RootDir, EnvDir)
    /\ \E certs \in SUBSET CertPaths :
           fs = {RootDir, EnvDir, PathJoin(EnvDir, "conda-meta")} \cup certs
    /\ ledger = {}
    /\ pc = "idle"
    /\ run = NoRun
    /\ log = <<>>
    /\ exit_code = <<>>
    /\ out = NoReport

NextNetwork ==
    \/ \E loc \in Range(cert_locations) : cert_installed(loc)
    \/ \E loc \in Range(cert_locations) : cert_removed(loc)
    \/ install(<<"p">>, FALSE)
    \/ check_prefix
    \/ create_cache_dir(3)
    \/ resolve_channels
    \/ add_subdir(FALSE)
    \/ download({})
    \/ build_pool
    \/ solve(TRUE)
    \/ build_transaction
    \/ prompt(TRUE)
    \/ execute_transaction
    \/ return

SpecNetwork == InitNetwork /\ [][NextNetwork]_vars

(***************************************************************************)
(* SpecOptions: a session that only configures and reports: every option   *)
(* code of set_opt and one below and one above the range, in any order and *)
(* any number of times, with print_context in between.  The prefixes stay  *)
(* as the session found them.                                              *)
(***************************************************************************)
OptionCodes == 0..15
VerbosityInputs == {0, 2}

NextOptions ==
    \/ \E option \in OptionCodes, value \in BOOLEAN : set_opt(option, value)
    \/ \E lvl \in VerbosityInputs : set_verbosity(lvl)
    \/ set_channels(<<"B", "A", "default">>)
    \/ print_context

SpecOptions == InitSession /\ [][NextOptions]_vars

(***************************************************************************)
(* Vocabulary of the properties.                                           *)
(***************************************************************************)
\* the places of a call in the log of the current install
Positions(event) == {i \in 1..Len(log) : log[i] = event}
Called(event) == Positions(event) # {}

Running == pc # "idle"

NoDuplicates(seq) == \A i, j \in 1..Len(seq) : seq[i] = seq[j] => i = j

\* the repositories of the pool that were built from a channel
ReposOf(channel) ==
    {i \in 1..Len(run.repos) :
        run.repos[i].name # <<"installed">> /\ run.repos[i].name[1] = channel}

PoolBuilt == Called("build_pool")

(***************************************************************************)
(* C1.  Under dry-run an install that got as far as the prompt never runs  *)
(* the environment-creation step, never reaches trans.execute and leaves   *)
(* the ledger as it was loaded, whatever create_env and the answer are.    *)
(* Fails: line 377 calls trans.execute whatever dry_run is; only lines     *)
(* 372-374 are guarded.  (The cache directory of lines 304-313 is created  *)
(* under dry-run as well.)                                                 *)
(***************************************************************************)
C1_DryRunMutatesNothing ==
    (ctx.dry_run /\ Called("prompt")) =>
        /\ ~Called("create_env_dir")
        /\ ~Called("execute")
        /\ ledger = run.prefix_data

PrefixProblem ==
    \/ ctx.root_prefix = EmptyPath
    \/ ctx.target_prefix = EmptyPath
    \/ ~exists(fs, ctx.target_prefix) /\ ~run.create_env

CacheDirProblem == ~exists(fs, CacheDir(ctx.root_prefix))

NoNetworkOrSolve ==
    /\ ~Called("calculate_channel_urls")
    /\ ~Called("add_target")
    /\ ~Called("download")
    /\ ~Called("solve")
    /\ run.channel_urls = <<>>
    /\ run.subdirs = <<>>
    /\ run.multi_dl = <<>>
    /\ ~run.solver.solved

C3_EarlyExitBeforeNetwork ==
    /\ (pc \notin {"idle", "check_prefix"} /\ PrefixProblem) =>
           (pc = "exited" /\ exit_code = <<1>> /\ NoNetworkOrSolve)
    /\ (pc \notin {"idle", "check_prefix", "cache_dir"} /\ CacheDirProblem) =>
           (pc = "exited" /\ exit_code = <<1>> /\ NoNetworkOrSolve)

\* the exit of line 301: both prefixes set, the target missing, no create_env
C3_Witness ==
    /\ pc = "exited"
    /\ exit_code = <<1>>
    /\ ctx.root_prefix # EmptyPath
    /\ ctx.target_prefix # EmptyPath
    /\ ~exists(fs, ctx.target_prefix)
    /\ ~run.create_env

(***************************************************************************)
(* C4.  Whenever the solver has been invoked, the download call came       *)
(* before it, every add of a download target came before the download,     *)
(* there is one target per resolved URL, every configured channel has its  *)
(* URLs among them, and no subdir is still pending.                        *)
(***************************************************************************)
C4_SolveAfterAllFetches ==
    \A s \in Positions("solve") :
        /\ \E d \in Positions("download") :
               /\ d < s
               /\ \A a \in Positions("add_target") : a < d
               /\ \A r \in Positions("calculate_channel_urls") : r < d
        /\ Cardinality(Positions("download")) = 1
        /\ Cardinality(Positions("add_target")) = Len(run.channel_urls)
        /\ Len(run.multi_dl) = Len(run.channel_urls)
        /\ Len(run.subdirs) = Len(run.channel_urls)
        /\ \A c \in Range(ctx.channels) :
               \E i \in 1..Len(run.channel_urls) : run.channel_urls[i].channel = c
        /\ \A i \in 1..Len(run.subdirs) :
               /\ run.multi_dl[i] = run.subdirs[i].name
               /\ run.subdirs[i].name =
                      <<run.channel_urls[i].channel, run.channel_urls[i].platform>>
               /\ run.subdirs[i].result \in {"ok", "cached", "failed"}

\* a solve after a download with a success, a fresh cache and a failure
C4_Witness ==
    /\ Called("solve")
    /\ \E i, j, k \in 1..Len(run.subdirs) :
           /\ run.subdirs[i].result = "ok"
           /\ run.subdirs[j].result = "cached"
           /\ run.subdirs[k].result = "failed"

(***************************************************************************)
(* C5.  For two distinct channels a, b configured as [a, b], every         *)
(* repository of a has a higher priority than every repository of b.       *)
(* Fails: install rebuilds ctx.channels from a std::unordered_set (lines   *)
(* 432-435), whose order is not the configured one.                        *)
(***************************************************************************)
C5_ConfiguredOrderIsPriorityOrder ==
    PoolBuilt =>
        \A a, b \in ChannelNames \cup DefaultChannels :
            (a # b /\ run.configured = <<a, b>>) =>
                \A i \in ReposOf(a), j \in ReposOf(b) :
                    run.repos[i].priority > run.repos[j].priority

(***************************************************************************)
(* C6.  With n resolved URLs the pool holds the installed repository and   *)
(* then, for i = 1..n, the repository of URL i with priority n - i + 1:    *)
(* the priorities are at least 1, pairwise distinct, and decrease along    *)
(* the list.                                                               *)
(***************************************************************************)
C6_RemotePriorities ==
    PoolBuilt =>
        LET n == Len(run.channel_urls) IN
        /\ Len(run.repos) = n + 1
        /\ \A i \in 1..n :
               /\ run.repos[i + 1].name =
                      <<run.channel_urls[i].channel, run.channel_urls[i].platform>>
               /\ run.repos[i + 1].priority = n - i + 1
               /\ run.repos[i + 1].priority >= 1
        /\ \A i, j \in 1..n :
               i < j => run.repos[i + 1].priority > run.repos[j + 1].priority

\* a pool over the URLs of at least three channels
C6_Witness == PoolBuilt /\ Len(run.channel_urls) >= 6

(***************************************************************************)
(* C7.  In every install the channel list that reaches channel-URL         *)
(* resolution names no channel twice, and neither does the URL list.       *)
(***************************************************************************)
C7_NoDuplicateChannels ==
    Running =>
        /\ NoDuplicates(ctx.channels)
        /\ NoDuplicates(run.channel_urls)

\* URLs resolved in a second install, whose caller had added a channel that
\* was already there
C7_Witness ==
    /\ Called("calculate_channel_urls")
    /\ "conda-forge" \in Range(run.configured)
    /\ ~NoDuplicates(run.configured)

(***************************************************************************)
(* C8.  After a failed solve no transaction is built, no prompt is shown,  *)
(* no environment directory is created and nothing is executed.            *)
(* Fails: the result of solver.solve() (line 354) is not looked at; lines  *)
(* 356-377 run as after a successful solve.                                *)
(***************************************************************************)
C8_UnsatisfiableStops ==
    (run.solver.solved /\ ~run.solver.success) =>
        /\ ~Called("transaction")
        /\ ~Called("prompt")
        /\ ~Called("create_env_dir")
        /\ ~Called("execute")

(***************************************************************************)
(* C9.  When the download failed for every subdir, the solver is not       *)
(* invoked, no transaction is built and nothing is executed.               *)
(* Fails: what multi_dl.download returns or leaves in the subdirs (line    *)
(* 335) is not looked at; lines 337-354 follow unconditionally.            *)
(***************************************************************************)
AllFetchesFailed ==
    /\ Called("download")
    /\ run.subdirs # <<>>
    /\ \A i \in 1..Len(run.subdirs) : run.subdirs[i].result = "failed"

SomeFetchesFailed ==
    /\ Called("download")
    /\ \E i \in 1..Len(run.subdirs) : run.subdirs[i].result = "failed"
    /\ \E i \in 1..Len(run.subdirs) : run.subdirs[i].result # "failed"

EnvTreeRequested == run.create_env /\ ~ctx.dry_run

InstalledRepos == {i \in 1..Len(run.repos) : run.repos[i].name = <<"installed">>}

C12_InstalledRepoLowest ==
    PoolBuilt =>
        /\ InstalledRepos = {1}
        /\ run.repos[1].packages = run.prefix_data
        /\ \A j \in 2..Len(run.repos) :
               run.repos[1].priority < run.repos[j].priority

\* a pool over a prefix with a record, next to remote repositories
C12_Witness ==
    /\ PoolBuilt
    /\ run.repos[1].packages # {}
    /\ Len(run.repos) >= 5

(***************************************************************************)
(* C13.  The solver of a run is given exactly one job per spec string, in  *)
(* the order of the specs, each tagged as an install job, with the         *)
(* allow-downgrade flag set to 1; it is built and solved once per run, and *)
(* not before the solve step.                                              *)
(***************************************************************************)
C13_SolveRequest ==
    /\ Cardinality(Positions("solve")) <= 1
    /\ ~Called("solve") => run.solver = NoSolver
    /\ Called("transaction") => Called("solve")
    /\ Called("solve") =>
           /\ run.solver.solved
           /\ Len(run.solver.jobs) = Len(run.specs)
           /\ \A i \in 1..Len(run.specs) :
                  run.solver.jobs[i] = <<run.specs[i], "SOLVER_INSTALL">>
           /\ run.solver.flags = {<<"SOLVER_FLAG_ALLOW_DOWNGRADE", 1>>}

\* a solved request of two different specs
C13_Witness ==
    /\ Called("solve")
    /\ Len(run.specs) = 2
    /\ run.specs[1] # run.specs[2]
    /\ pc = "done"

(***************************************************************************)
(* C15.  The table list prints has exactly one row per record of the       *)
(* ledger, none dropped and none twice; the rows are in non-decreasing     *)
(* order of the package name; and the channel column of a row is blank     *)
(* exactly when the record's channel is the default public channel.        *)
(***************************************************************************)
DefaultPublicChannel == <<"https://repo.anaconda.com/pkgs/", "main">>

C15_ListRows ==
    out.kind = "list" =>
        /\ Len(out.lines) = Cardinality(ledger)
        /\ {out.lines[i].name : i \in 1..Len(out.lines)} = ledger
        /\ \A i, j \in 1..Len(out.lines) :
               i < j => ~StringLess(Chars(out.lines[j].name), Chars(out.lines[i].name))
        /\ \A i \in 1..Len(out.lines) :
               out.lines[i].channel = ""
                   <=> package_record(out.lines[i].name).channel = DefaultPublicChannel

\* a table of three records, one of them from the default public channel
C15_Witness ==
    /\ out.kind = "list"
    /\ Len(out.lines) = 3
    /\ \E i \in 1..3 : out.lines[i].channel = ""

(***************************************************************************)
(* C14.  Once install has run set_network_options, ssl_verify is "<false>" *)
(* when verification is switched off in network_options; else the          *)
(* configured CA path when there is one; else one of the listed bundle     *)
(* paths that exists; and "<false>" when none of the listed paths exists,  *)
(* whatever ssl_verify held before.  It is never empty during a run.       *)
(***************************************************************************)
ExistingCertLocations ==
    {i \in 1..Len(cert_locations) : exists(fs, CertPath(cert_locations[i]))}

C14_SslVerifySelection ==
    Running =>
        /\ ctx.ssl_verify # ""
        /\ pc = "check_prefix" =>
               IF network_options.ssl_verify = FALSE
               THEN ctx.ssl_verify = "<false>"
               ELSE IF network_options.cacert_path # ""
               THEN ctx.ssl_verify = network_options.cacert_path
               ELSE IF ExistingCertLocations # {}
               THEN \E i \in ExistingCertLocations : ctx.ssl_verify = cert_locations[i]
               ELSE ctx.ssl_verify = "<false>"

(***************************************************************************)
(* C16.  set_opt(k, v) with k in 1..14 sets the flag of code k to v and    *)
(* leaves every other field of the context as it was; with any other k it  *)
(* leaves the whole context as it was.                                     *)
(***************************************************************************)
\* the flag each code stands for (the comments of lines 142-194)
FlagOf ==
    << "use_index_cache", "offline", "quiet", "json", "auto_activate_base",
       "dev", "on_ci", "no_progress_bars", "dry_run", "always_yes",
       "keep_temp_files", "keep_temp_directories", "change_ps1",
       "add_pip_as_python_dependency" >>

C16_SetOptFrame ==
    \A option \in OptionCodes, value \in BOOLEAN :
        LET after == set_opt_ctx(ctx, option, value) IN
        /\ DOMAIN after = DOMAIN ctx
        /\ IF option \in 1..14
           THEN /\ after[FlagOf[option]] = value
                /\ \A field \in DOMAIN ctx \ {FlagOf[option]} : after[field] = ctx[field]
           ELSE after = ctx

\* a context several set_opt calls have shaped
C16_Witness ==
    /\ ctx.always_yes
    /\ ~ctx.quiet
    /\ ~ctx.dry_run
    /\ ctx.add_pip_as_python_dependency
    /\ ctx.use_index_cache
    /\ ctx.verbosity = 2
    /\ ctx.channels # <<>>

(***************************************************************************)
(* C18.  What print_context prints is the context as it is: one Channel    *)
(* line per channel, in order, and then the labelled lines, each showing   *)
(* the setting its label names.                                            *)
(***************************************************************************)
\* the labelled lines and the setting each label names
ContextLabels ==
    << <<"Root prefix", "root_prefix">>,
       <<"Target prefix", "target_prefix">>,
       <<"Use index cache", "use_index_cache">>,
       <<"Is offline", "offline">>,
       <<"Verbosity level", "verbosity">>,
       <<"Is quiet", "quiet">>,
       <<"Is json", "json">>,
       <<"Auto activate base", "auto_activate_base">>,
       <<"Is dev", "dev">>,
       <<"Is on CI", "on_ci">>,
       <<"Is no no progress bars", "no_progress_bars">>,
       <<"Is dry run", "dry_run">>,
       <<"Always yes", "always_yes">>,
       <<"Keep temporary files", "keep_temp_files">>,
       <<"Keep temporary directories", "keep_temp_directories">>,
       <<"Change PS1", "change_ps1">>,
       <<"Add pip as python dependency", "add_pip_as_python_dependency">> >>

C18_ContextReportIsTrue ==
    out.kind = "context" =>
        LET n == Len(ctx.channels) IN
        /\ Len(out.lines) = n + Len(ContextLabels)
        /\ \A i \in 1..n : out.lines[i] = <<"Channel", ctx.channels[i]>>
        /\ \A i \in 1..Len(ContextLabels) :
               /\ out.lines[n + i][1] = ContextLabels[i][1]
               /\ out.lines[n + i][2] = ctx[ContextLabels[i][2]]

(***************************************************************************)
(* C17.  From the moment install has rebuilt the channel list and for the  *)
(* rest of the run, the list is not empty and names "default" and          *)
(* "conda-forge"; as a set it is what the caller had configured plus these *)
(* two, so an install over the list a previous install left changes        *)
(* nothing in the set; and the URLs are resolved for exactly these         *)
(* channels.                                                               *)
(***************************************************************************)
C17_DefaultChannelsPresent ==
    Running =>
        /\ ctx.channels # <<>>
        /\ DefaultChannels \subseteq Range(ctx.channels)
        /\ Range(ctx.channels) = Range(run.configured) \cup DefaultChannels
        /\ DefaultChannels \subseteq Range(run.configured)
               => Range(ctx.channels) = Range(run.configured)
        /\ Called("calculate_channel_urls")
               => {run.channel_urls[i].channel : i \in 1..Len(run.channel_urls)}
                      = Range(ctx.channels)

\* URLs resolved in an install over the list a previous install left, with a
\* channel of the caller's in it
C17_Witness ==
    /\ Called("calculate_channel_urls")
    /\ DefaultChannels \subseteq Range(run.configured)
    /\ "A" \in Range(run.configured)
    /\ NoDuplicates(run.configured)

============================================================================
